---- MODULE Spec2Model ----
(***************************************************************************)
(* Model of basil's multi-connection aggregation:                          *)
(*   - BaseResourceListWidget (src/basil/ui/widgets/base_resource_list.py) *)
(*     the asynchronous accumulator: load_resources_parallel,              *)
(*     on_worker_state_changed, _flush_updates, _finalize_load,            *)
(*     _timeout_handler, cancel_workers, on_data_table_header_selected,    *)
(*     load_resources;                                                     *)
(*   - EventListWidget / CheckListWidget sort keys and default sort;       *)
(*   - ConnectionManager.get_all (src/basil/client.py), the synchronous    *)
(*     path.                                                               *)
(* Strings are sequences of character codes, so that lower(), str() and    *)
(* int() are computed rather than assumed.                                 *)
(***************************************************************************)
EXTENDS Integers, Sequences, FiniteSets, TLC

\* ------------------------------------------------------------------ bounds
\* largest number of connections a connection manager holds
MaxConns == 2
\* largest number of load_resources_parallel calls in one behaviour
MaxGen == 2
\* largest number of records one connection answers to get_all
MaxItems == 2
\* largest number of entries under "connections" in a configuration
MaxEntries == 3
\* largest number of ConnectionManager objects constructed in one behaviour
MaxBuilds == 2
\* longest list of resources the sort is given
MaxLen == 3

\* ------------------------------------------------------- program constants
\* self._sort_column = None
NoColumn == -1
\* EventListWidget: "return 999  # Put non-numeric values at the end"
EVENT_NON_NUMERIC == 999
\* CheckListWidget: "return 999999  # Put non-numeric values at the end"
CHECK_NON_NUMERIC == 999999

\* ----------------------------------------------------------------- strings
\* the text "N/A"
NA == <<78, 47, 65>>

\* str.lower() on one character code (ASCII letters)
LowerChar(c) == IF c >= 65 /\ c <= 90 THEN c + 32 ELSE c

\* str.lower()
Lower(s) == [i \in 1..Len(s) |-> LowerChar(s[i])]

RECURSIVE Digits(_)
\* str(n) for a natural number n
Digits(n) == IF n < 10 THEN <<48 + n>> ELSE Digits(n \div 10) \o <<48 + (n % 10)>>

\* str(v) of an optional integer attribute: <<>> is the missing attribute,
\* whose getattr default is 'N/A'
StrOfAttr(v) == IF v = <<>> THEN NA
                ELSE IF v[1] < 0 THEN <<45>> \o Digits(-v[1]) ELSE Digits(v[1])

IsDigits(s) == s # <<>> /\ \A i \in 1..Len(s) : s[i] >= 48 /\ s[i] <= 57

RECURSIVE DigitsValue(_)
DigitsValue(s) == IF s = <<>> THEN 0 ELSE 10 * DigitsValue(SubSeq(s, 1, Len(s) - 1)) + (s[Len(s)] - 48)

\* int(s): [ok |-> FALSE] stands for ValueError
ParseInt(s) ==
    IF IsDigits(s) THEN [ok |-> TRUE, val |-> DigitsValue(s)]
    ELSE IF Len(s) > 1 /\ s[1] = 45 /\ IsDigits(Tail(s)) THEN [ok |-> TRUE, val |-> -DigitsValue(Tail(s))]
    ELSE [ok |-> FALSE, val |-> 0]

RECURSIVE LexLess(_, _)
\* s < t for two strings (or two integers wrapped as one-element sequences)
LexLess(s, t) ==
    IF t = <<>> THEN FALSE
    ELSE IF s = <<>> THEN TRUE
    ELSE IF s[1] # t[1] THEN s[1] < t[1]
    ELSE LexLess(Tail(s), Tail(t))

RECURSIVE KeyLess(_, _)
\* k1 < k2 for two sort keys: a key is a tuple of components, compared as
\* Python compares tuples; a bare int or str key is a one-component tuple
KeyLess(k1, k2) ==
    IF k2 = <<>> THEN FALSE
    ELSE IF k1 = <<>> THEN TRUE
    ELSE IF k1[1] # k2[1] THEN LexLess(k1[1], k2[1])
    ELSE KeyLess(Tail(k1), Tail(k2))

\* --------------------------------------------------------------- resources
\* the name of connection c as text ("1", "2", ...)
ConnName(c) == Digits(c)

\* SensuResource(data=item, connection=conn): the wrapper keeps the data and
\* records the connection it was fetched from
SensuResource(data, conn) == [data |-> data, connection |-> conn, connection_name |-> ConnName(conn)]

\* What the backend of connection c answers to the fetch of generation g.
\* name: (entity.)metadata.name, check: check.metadata.name / command,
\* status: check.status / interval.  Connection 1 has two records, connection
\* 2 one record whose name, check and status equal the first record of
\* connection 1, every further connection has none.
RemoteItems(c, g) ==
    IF c = 1 THEN << [id |-> <<g, 1, 1>>, name |-> <<97>>, check |-> <<99>>, status |-> <<2>>],
                     [id |-> <<g, 1, 2>>, name |-> <<66>>, check |-> <<99>>, status |-> <<0>>] >>
    ELSE IF c = 2 THEN << [id |-> <<g, 2, 1>>, name |-> <<97>>, check |-> <<99>>, status |-> <<2>>] >>
    ELSE << >>

\* the worker's result: (connection.name, results), results wrapped per connection
WorkerResult(c, g) == [i \in 1..Len(RemoteItems(c, g)) |-> SensuResource(RemoteItems(c, g)[i], c)]

Kinds == {"events", "checks"}

\* extract_row_data of EventListWidget and CheckListWidget (the output
\* column of an event is the empty text in this model)
extract_row_data(kind, r) ==
    IF kind = "events"
    THEN << r.data.name, r.data.check, StrOfAttr(r.data.status), <<>>, r.connection_name >>
    ELSE << r.connection_name, r.data.name, r.data.check, StrOfAttr(r.data.status) >>

\* multi_sort_key without .lower()
multi_sort_key_with_case(r) ==
    LET row == extract_row_data("events", r)
        p == ParseInt(row[3])
        status == IF p.ok THEN p.val ELSE EVENT_NON_NUMERIC
    IN << <<-status>>, row[1], row[2] >>

\* EventListWidget.apply_default_sort.multi_sort_key
multi_sort_key(r) ==
    LET row == extract_row_data("events", r)
        p == ParseInt(row[3])
        status == IF p.ok THEN p.val ELSE EVENT_NON_NUMERIC
    IN << <<-status>>, Lower(row[1]), Lower(row[2]) >>

\* get_sort_key of EventListWidget and CheckListWidget
get_sort_key(kind, r, column_index) ==
    LET row == extract_row_data(kind, r)
    IN IF column_index + 1 <= Len(row)
       THEN LET p == ParseInt(row[column_index + 1])
            IN IF kind = "events" /\ column_index = 2
               THEN << << IF p.ok THEN p.val ELSE EVENT_NON_NUMERIC >> >>
               ELSE IF kind = "checks" /\ column_index = 3
               THEN << << IF p.ok THEN p.val ELSE CHECK_NON_NUMERIC >> >>
               ELSE << Lower(row[column_index + 1]) >>
       ELSE << <<>> >>

\* the key list.sort is given: by.default selects multi_sort_key
SortKey(kind, by, r) == IF by.default THEN multi_sort_key(r) ELSE get_sort_key(kind, r, by.col)

\* whether key k1 goes before key k2: list.sort(..., reverse=reverse)
Before(reverse, k1, k2) == IF reverse THEN KeyLess(k2, k1) ELSE KeyLess(k1, k2)

\* a sort that is not stable: elements with equal keys come out in reverse
SortRank_ties_reversed(keys, reverse, i) ==
    1 + Cardinality({j \in 1..Len(keys) :
                       /\ j # i
                       /\ \/ Before(reverse, keys[j], keys[i])
                          \/ (j > i /\ ~Before(reverse, keys[i], keys[j]))})

\* the place list.sort gives the element with key keys[i]: behind every
\* element that goes before it and behind every earlier element it does not
\* go before (the sort is stable, also with reverse=True)
SortRank(keys, reverse, i) ==
    1 + Cardinality({j \in 1..Len(keys) :
                       /\ j # i
                       /\ \/ Before(reverse, keys[j], keys[i])
                          \/ (j < i /\ ~Before(reverse, keys[i], keys[j]))})

\* s ordered by the keys of its elements
SortByKeys(keys, reverse, s) ==
    [p \in 1..Len(s) |-> s[CHOOSE i \in 1..Len(s) : SortRank(keys, reverse, i) = p]]

\* list.sort(key=..., reverse=...): the key of each element is computed once
StableSort(kind, by, s) ==
    SortByKeys([i \in 1..Len(s) |-> SortKey(kind, by, s[i])], by.reverse, s)

\* apply_default_sort: events sort by multi_sort_key, the base class does nothing
apply_default_sort(kind, res) ==
    IF kind = "events" THEN StableSort(kind, [default |-> TRUE, col |-> NoColumn, reverse |-> FALSE], res)
    ELSE res

\* _sort_resources that always sorts ascending
sort_resources_ascending(kind, res, column_index, reverse) ==
    StableSort(kind, [default |-> FALSE, col |-> column_index, reverse |-> FALSE], res)

\* _sort_resources(column_index, reverse)
sort_resources(kind, res, column_index, reverse) ==
    StableSort(kind, [default |-> FALSE, col |-> column_index, reverse |-> reverse], res)

\* one table row per resource; a placeholder row carries a text and no resource
ResourceRow(r) == [text |-> "", n |-> 0, res |-> <<r>>]
TextRow(t, n) == [text |-> t, n |-> n, res |-> <<>>]

\* load_resources that turns the default sort on at every call
Loaded_default_again(sorted, ss, first) ==
    [resources |-> sorted,
     using_default |-> TRUE,
     initial_applied |-> TRUE,
     rows |-> [i \in 1..Len(sorted) |-> ResourceRow(sorted[i])]]

\* the table after load_resources: self.resources, one row per resource, and
\* the sort flags; first tells that no sort was in force before the call
Loaded(sorted, ss, first) ==
    [resources |-> sorted,
     using_default |-> (ss.using_default \/ first),
     initial_applied |-> (ss.initial_applied \/ first),
     rows |-> [i \in 1..Len(sorted) |-> ResourceRow(sorted[i])]]

\* load_resources that does not re-apply the pinned column
load_resources_no_resort(kind, res, ss) ==
    Loaded(IF ss.using_default THEN apply_default_sort(kind, res)
           ELSE IF ss.col # NoColumn THEN res
           ELSE apply_default_sort(kind, res),
           ss, ~ss.using_default /\ ss.col = NoColumn)

\* load_resources(resources): the resources, re-sorted by the active sort,
\* the sort flags and the rows of the table afterwards.  ss is the sort state
\* [col, reverse, using_default, initial_applied] before the call.
load_resources(kind, res, ss) ==
    Loaded(IF ss.using_default THEN apply_default_sort(kind, res)
           ELSE IF ss.col # NoColumn THEN sort_resources(kind, res, ss.col, ss.reverse)
           ELSE apply_default_sort(kind, res),
           ss, ~ss.using_default /\ ss.col = NoColumn)

\* ------------------------------------------------------------------- state
VARIABLES
    kind,                    \* which list widget this is (fixed at construction)
    resources,               \* self.resources
    rows,                    \* the rows of the DataTable
    sort_column,             \* self._sort_column (NoColumn is None)
    sort_reverse,            \* self._sort_reverse
    using_default_sort,      \* self._using_default_sort
    initial_sort_applied,    \* self._initial_sort_applied
    pending_results,         \* self.pending_results, a dict in insertion order
    completed_worker_count,  \* self.completed_worker_count
    expected_worker_count,   \* self.expected_worker_count
    active_workers,          \* self.active_workers
    is_loading,              \* self.is_loading
    batch_timer,             \* self._batch_timer is set and its timer pending
    load_kwargs,             \* self._load_kwargs
    workers,                 \* every worker ever started: its state / queued message
    deadlines,               \* generations whose set_timer(timeout, ...) is pending
    gen,                     \* number of load_resources_parallel calls so far
    seen,                    \* history: outcomes merged by the generation that is loading
    fin,                     \* history: what the finalize of the last step saw
    genStatus,               \* history: how each generation stands
    flushed,                 \* history: connections in the last flush of this generation
    loaded,                  \* history: the last load_resources call
    ga,                      \* one ConnectionManager.get_all call
    app,                     \* the BasilApp: its attributes, its ConnectionManager objects
    ent                      \* the EntityListWidget: its resources and its side table

vars == << kind, resources, rows, sort_column, sort_reverse, using_default_sort,
           initial_sort_applied, pending_results, completed_worker_count,
           expected_worker_count, active_workers, is_loading, batch_timer,
           load_kwargs, workers, deadlines, gen, seen, fin, genStatus, flushed, loaded,
           ga, app, ent >>

\* a worker is named by the generation that started it and its connection
WorkerIds == (1..MaxGen) \X (1..MaxConns)

\* the keyword arguments load_resources_parallel is given
KwargsInputs == {"{}"}

\* the columns whose header the user clicks
ClickColumns == {0, 2}

NoFin == [valid |-> FALSE, gen |-> 0, by |-> "", pend |-> <<>>, seen |-> {}, flushed |-> {},
          ss |-> [col |-> NoColumn, reverse |-> FALSE, using_default |-> FALSE,
                  initial_applied |-> FALSE],
          expected |-> 0]

\* no load_resources call yet
NoLoad == [valid |-> FALSE, res |-> <<>>,
           after |-> [col |-> NoColumn, reverse |-> FALSE, using_default |-> FALSE,
                      initial_applied |-> FALSE],
           again |-> FALSE]

\* queried (history): the connections whose get was called
GaIdle == [pc |-> "idle", known |-> TRUE, outcomes |-> <<>>, i |-> 0, all_items |-> <<>>,
           success_count |-> 0, error_count |-> 0, errors |-> <<>>,
           queried |-> {}, result |-> [none |-> FALSE, items |-> <<>>]]

\* the sort state load_resources reads
SortState == [col |-> sort_column, reverse |-> sort_reverse,
              using_default |-> using_default_sort, initial_applied |-> initial_sort_applied]


\* ------------------------------------------- configuration and connections
\* conn_cfg.get("name"): the empty text stands for a missing or empty name
EntryNames == {"", "prod", "dev"}

\* the credentials of an entry: username and password, an api_key, or neither
EntryAuths == {"password", "api_key", "none"}

\* one entry of config["connections"]; url stands for its endpoint
ConfigEntries == [name : EntryNames, auth : EntryAuths, url : 1..(MaxEntries + 1)]

\* the configurations a loader returns: every entry has its own endpoint
Configs ==
    UNION {{c \in [1..n -> ConfigEntries] : \A i \in 1..n : c[i].url = i} : n \in 0..MaxEntries}

\* the connection the user saves in the connection detail widget
EditEntries == {e \in ConfigEntries : e.name # "" /\ e.auth = "password" /\ e.url = MaxEntries + 1}

\* app.connection_manager = None
NoManager == 0

\* get_connection returns None
NoConnection == [name |-> "", url |-> 0]

\* no ConnectionManager(...) call is running
NoBuild == [active |-> FALSE, by |-> "", cfg |-> <<>>, i |-> 0, mgr |-> NoManager]

\* no ConnectionManager(...) call has ended yet
NoResult == [status |-> "none", error |-> "", at |-> 0, mgr |-> NoManager, cfg |-> <<>>]

\* BasilApp.__init__: connection_manager is None and there is no attribute
\* config (config.set is hasattr(app, "config")); file is what
\* ConfigLoader.load returns, managers the ConnectionManager objects
\* constructed so far (each its _connections), build the constructor that is
\* running, last how the last constructor call ended
AppInit(file) ==
    [file |-> file,
     config |-> [set |-> FALSE, connections |-> <<>>],
     connection_manager |-> NoManager,
     managers |-> <<>>,
     build |-> NoBuild,
     last |-> NoResult,
     notified |-> ""]

\* EntityListWidget with the entities `entities` shown and the side table
\* `counts` (_entity_check_counts, a dict: here a function on its keys);
\* events and calls record the preprocess_resources calls
EntInit(entities, counts) ==
    [resources |-> entities,
     entity_check_counts |-> counts,
     events |-> [supplied |-> FALSE, events |-> <<>>],
     before |-> counts,
     calls |-> 0]

\* BaseResourceListWidget.__init__
InitWidget ==
    /\ kind \in Kinds
    /\ resources = <<>>
    /\ rows = <<>>
    /\ sort_column = NoColumn
    /\ sort_reverse = FALSE
    /\ using_default_sort = FALSE
    /\ initial_sort_applied = FALSE
    /\ pending_results = <<>>
    /\ completed_worker_count = 0
    /\ expected_worker_count = 0
    /\ active_workers = {}
    /\ is_loading = FALSE
    /\ batch_timer = FALSE
    /\ load_kwargs = "{}"
    /\ workers = [w \in WorkerIds |-> "none"]
    /\ deadlines = {}
    /\ gen = 0
    /\ seen = {}
    /\ fin = NoFin
    /\ genStatus = [g \in 1..MaxGen |-> "none"]
    /\ flushed = {}
    /\ loaded = NoLoad
    /\ ga = GaIdle

\* the widget in an app that has loaded no configuration
Init ==
    /\ InitWidget
    /\ app = AppInit(<<>>)
    /\ ent = EntInit(<<>>, << >>)

\* ------------------------------------------------------------ dict helpers
DictKeys(d) == {d[i].name : i \in 1..Len(d)}

\* the accumulator replaced by the newest result instead of extended
DictSet_replacing(d, k, v) == << [name |-> k, resources |-> v] >>

\* d[k] = v on a dict: a new key is appended, an existing key keeps its place
DictSet(d, k, v) ==
    IF k \in DictKeys(d)
    THEN [i \in 1..Len(d) |-> IF d[i].name = k THEN [name |-> k, resources |-> v] ELSE d[i]]
    ELSE Append(d, [name |-> k, resources |-> v])

RECURSIVE Combine(_)
\* "for resources in self.pending_results.values(): all_resources.extend(resources)"
Combine(d) == IF d = <<>> THEN <<>> ELSE d[1].resources \o Combine(Tail(d))

\* ----------------------------------------------------------------- actions
\* worker.cancel() for every worker of the list: a worker still running ends
\* CANCELLED (a state change on_worker_state_changed ignores, so the worker is
\* done), a worker that already finished is not affected
CancelAll(ws) ==
    [w \in WorkerIds |-> IF w \in ws /\ workers[w] = "running" THEN "done" ELSE workers[w]]

\* the fields of the widget a consumer can read
Widget ==
    [resources |-> resources, rows |-> rows, sort_column |-> sort_column,
     sort_reverse |-> sort_reverse, using_default_sort |-> using_default_sort,
     initial_sort_applied |-> initial_sort_applied, pending_results |-> pending_results,
     completed_worker_count |-> completed_worker_count,
     expected_worker_count |-> expected_worker_count, active_workers |-> active_workers,
     is_loading |-> is_loading, batch_timer |-> batch_timer, load_kwargs |-> load_kwargs]

\* the widget _finalize_load leaves when its load_resources call left lr
Finalized(lr, cnt, ss, expected) ==
    [resources |-> lr.resources, rows |-> lr.rows, sort_column |-> ss.col,
     sort_reverse |-> ss.reverse, using_default_sort |-> lr.using_default,
     initial_sort_applied |-> lr.initial_applied, pending_results |-> <<>>,
     completed_worker_count |-> cnt, expected_worker_count |-> expected,
     active_workers |-> {}, is_loading |-> FALSE, batch_timer |-> FALSE,
     load_kwargs |-> "{}"]

\* _finalize_load: the widget it leaves, entered with the accumulator pend,
\* the count cnt, the sort state ss and expected_worker_count expected
FinalizeResult(k, pend, cnt, ss, expected) ==
    Finalized(load_resources(k, Combine(pend), ss), cnt, ss, expected)

\* the record of a load_resources(res) call made in sort state ss that left lr:
\* its argument, the sort state it leaves, and whether it repeats the call
\* before it (same argument, entered in the sort state that call left)
CallOf(res, ss, col, reverse, lr) ==
    [valid |-> TRUE, res |-> res,
     after |-> [col |-> col, reverse |-> reverse, using_default |-> lr.using_default,
                initial_applied |-> lr.initial_applied],
     again |-> (loaded.valid /\ loaded.res = res /\ loaded.after = ss)]

\* _finalize_load as a step
finalize_load(pend, cnt, by, log) ==
    \E f \in {FinalizeResult(kind, pend, cnt, SortState, expected_worker_count)} :
       /\ batch_timer' = f.batch_timer
       /\ resources' = f.resources
       /\ rows' = f.rows
       /\ using_default_sort' = f.using_default_sort
       /\ initial_sort_applied' = f.initial_sort_applied
       /\ is_loading' = f.is_loading
       /\ pending_results' = f.pending_results
       /\ active_workers' = f.active_workers
       /\ load_kwargs' = f.load_kwargs
       /\ completed_worker_count' = f.completed_worker_count
       /\ seen' = {}
       /\ flushed' = {}
       /\ loaded' = CallOf(Combine(pend), SortState, sort_column, sort_reverse,
                           [using_default |-> f.using_default_sort,
                            initial_applied |-> f.initial_sort_applied])
       /\ fin' = [valid |-> TRUE, gen |-> gen, by |-> by, pend |-> pend, seen |-> log,
                  flushed |-> flushed, ss |-> SortState, expected |-> expected_worker_count]
       /\ genStatus' = [genStatus EXCEPT ![gen] = "finalized"]
       /\ UNCHANGED << kind, sort_column, sort_reverse, expected_worker_count >>

\* load_resources_parallel(connection_manager, resource_type, **kwargs) with a
\* connection manager of n connections
load_resources_parallel(n, kw) ==
    /\ gen < MaxGen
    /\ gen' = gen + 1
    /\ pending_results' = <<>>
    /\ completed_worker_count' = 0
    /\ expected_worker_count' = n
    /\ is_loading' = TRUE
    /\ batch_timer' = FALSE
    /\ load_kwargs' = kw
    /\ seen' = {}
    /\ fin' = NoFin
    /\ flushed' = {}
    /\ genStatus' = [g \in 1..MaxGen |->
                       IF g = gen + 1 THEN "loading"
                       ELSE IF g = gen /\ is_loading THEN "superseded"
                       ELSE genStatus[g]]
    /\ IF n = 0
       THEN /\ rows' = << TextRow("No connections configured", 0) >>
            /\ workers' = CancelAll(active_workers)
            /\ active_workers' = {}
            /\ deadlines' = deadlines
       ELSE /\ rows' = << TextRow("Loading from N server(s)...", n) >>
            /\ workers' = [w \in WorkerIds |->
                             IF w[1] = gen + 1 /\ w[2] <= n THEN "running"
                             ELSE CancelAll(active_workers)[w]]
            /\ active_workers' = {w \in WorkerIds : w[1] = gen + 1 /\ w[2] <= n}
            /\ deadlines' = deadlines \cup {gen + 1}
    /\ UNCHANGED << kind, resources, sort_column, sort_reverse, using_default_sort,
                    initial_sort_applied, loaded, ga, app, ent >>

\* the worker thread of w returns: Worker.StateChanged(SUCCESS) is posted
WorkerSucceeds(w) ==
    /\ workers[w] = "running"
    /\ workers' = [workers EXCEPT ![w] = "success"]
    /\ fin' = NoFin
    /\ UNCHANGED << kind, resources, rows, sort_column, sort_reverse, using_default_sort,
                    initial_sort_applied, pending_results, completed_worker_count,
                    expected_worker_count, active_workers, is_loading, batch_timer,
                    load_kwargs, deadlines, gen, seen, genStatus, flushed, loaded, ga, app, ent >>

\* the worker thread of w raises: Worker.StateChanged(ERROR) is posted
WorkerFails(w) ==
    /\ workers[w] = "running"
    /\ workers' = [workers EXCEPT ![w] = "error"]
    /\ fin' = NoFin
    /\ UNCHANGED << kind, resources, rows, sort_column, sort_reverse, using_default_sort,
                    initial_sort_applied, pending_results, completed_worker_count,
                    expected_worker_count, active_workers, is_loading, batch_timer,
                    load_kwargs, deadlines, gen, seen, genStatus, flushed, loaded, ga, app, ent >>

\* on_worker_state_changed without "self._batch_timer = self.set_timer(0.5, ...)"
on_worker_state_changed_no_timer(w) ==
    /\ workers[w] \in {"success", "error"}
    /\ workers' = [workers EXCEPT ![w] = "done"]
    /\ UNCHANGED << deadlines, gen, ga, app, ent >>
    /\ IF ~is_loading
       THEN /\ fin' = NoFin
            /\ UNCHANGED << kind, resources, rows, sort_column, sort_reverse,
                            using_default_sort, initial_sort_applied, pending_results,
                            completed_worker_count, expected_worker_count, active_workers,
                            is_loading, batch_timer, load_kwargs, seen, genStatus, flushed,
                            loaded >>
       ELSE LET ok == workers[w] = "success"
                pend == IF ok THEN DictSet(pending_results, w[2], WorkerResult(w[2], w[1]))
                        ELSE pending_results
                cnt == completed_worker_count + 1
                log == seen \cup {[w |-> w, ok |-> ok]}
            IN IF cnt >= expected_worker_count
               THEN finalize_load(pend, cnt, "complete", log)
               ELSE /\ pending_results' = pend
                    /\ completed_worker_count' = cnt
                    /\ batch_timer' = batch_timer
                    /\ seen' = log
                    /\ fin' = NoFin
                    /\ UNCHANGED << kind, resources, rows, sort_column, sort_reverse,
                                    using_default_sort, initial_sort_applied,
                                    expected_worker_count, active_workers, is_loading,
                                    load_kwargs, genStatus, flushed, loaded >>

\* on_worker_state_changed(event) for the queued state change of worker w
on_worker_state_changed(w) ==
    /\ workers[w] \in {"success", "error"}
    /\ workers' = [workers EXCEPT ![w] = "done"]
    /\ UNCHANGED << deadlines, gen, ga, app, ent >>
    /\ IF ~is_loading
       THEN /\ fin' = NoFin
            /\ UNCHANGED << kind, resources, rows, sort_column, sort_reverse,
                            using_default_sort, initial_sort_applied, pending_results,
                            completed_worker_count, expected_worker_count, active_workers,
                            is_loading, batch_timer, load_kwargs, seen, genStatus, flushed,
                            loaded >>
       ELSE LET ok == workers[w] = "success"
                pend == IF ok THEN DictSet(pending_results, w[2], WorkerResult(w[2], w[1]))
                        ELSE pending_results
                cnt == completed_worker_count + 1
                log == seen \cup {[w |-> w, ok |-> ok]}
            IN IF cnt >= expected_worker_count
               THEN finalize_load(pend, cnt, "complete", log)
               ELSE /\ pending_results' = pend
                    /\ completed_worker_count' = cnt
                    /\ batch_timer' = (batch_timer \/ ok)
                    /\ seen' = log
                    /\ fin' = NoFin
                    /\ UNCHANGED << kind, resources, rows, sort_column, sort_reverse,
                                    using_default_sort, initial_sort_applied,
                                    expected_worker_count, active_workers, is_loading,
                                    load_kwargs, genStatus, flushed, loaded >>

\* _flush_updates that also clears the loading state
flush_updates_stops_loading ==
    /\ batch_timer
    /\ batch_timer' = FALSE
    /\ fin' = NoFin
    /\ is_loading' = FALSE
    /\ UNCHANGED << kind, sort_column, sort_reverse, pending_results, completed_worker_count,
                    expected_worker_count, active_workers, load_kwargs,
                    workers, deadlines, gen, seen, genStatus, ga, app, ent >>
    /\ IF ~is_loading
       THEN UNCHANGED << resources, rows, using_default_sort, initial_sort_applied, flushed,
                         loaded >>
       ELSE \E lr \in {load_resources(kind, Combine(pending_results), SortState)} :
               /\ flushed' = DictKeys(pending_results)
               /\ loaded' = CallOf(Combine(pending_results), SortState, sort_column,
                                   sort_reverse, lr)
               /\ resources' = lr.resources
               /\ rows' = lr.rows
               /\ using_default_sort' = lr.using_default
               /\ initial_sort_applied' = lr.initial_applied

\* _flush_updates: the 0.5 s batch timer fires
flush_updates ==
    /\ batch_timer
    /\ batch_timer' = FALSE
    /\ fin' = NoFin
    /\ UNCHANGED << kind, sort_column, sort_reverse, pending_results, completed_worker_count,
                    expected_worker_count, active_workers, is_loading, load_kwargs,
                    workers, deadlines, gen, seen, genStatus, ga, app, ent >>
    /\ IF ~is_loading
       THEN UNCHANGED << resources, rows, using_default_sort, initial_sort_applied, flushed,
                         loaded >>
       ELSE \E lr \in {load_resources(kind, Combine(pending_results), SortState)} :
               /\ flushed' = DictKeys(pending_results)
               /\ loaded' = CallOf(Combine(pending_results), SortState, sort_column,
                                   sort_reverse, lr)
               /\ resources' = lr.resources
               /\ rows' = lr.rows
               /\ using_default_sort' = lr.using_default
               /\ initial_sort_applied' = lr.initial_applied

\* the timer set by set_timer(timeout, self._timeout_handler) in the load of
\* generation g elapses; nothing keeps its handle, so nothing stops it
timer_elapses(g) ==
    /\ g \in deadlines
    /\ deadlines' = deadlines \ {g}

\* _timeout_handler: the timer armed by the load of generation g fires
timeout_handler(g) ==
    /\ timer_elapses(g)
    /\ UNCHANGED << workers, gen, ga, app, ent >>
    /\ IF is_loading
       THEN finalize_load(pending_results, completed_worker_count, "deadline", seen)
       ELSE /\ fin' = NoFin
            /\ UNCHANGED << kind, resources, rows, sort_column, sort_reverse,
                            using_default_sort, initial_sort_applied, pending_results,
                            completed_worker_count, expected_worker_count, active_workers,
                            is_loading, batch_timer, load_kwargs, seen, genStatus, flushed,
                            loaded >>

\* cancel_workers without "self.is_loading = False"
cancel_workers_keeps_loading ==
    /\ active_workers # {} \/ is_loading \/ batch_timer
    /\ workers' = CancelAll(active_workers)
    /\ active_workers' = {}
    /\ is_loading' = is_loading
    /\ batch_timer' = FALSE
    /\ fin' = NoFin
    /\ genStatus' = [g \in 1..MaxGen |->
                       IF g = gen /\ is_loading THEN "cancelled" ELSE genStatus[g]]
    /\ UNCHANGED << kind, resources, rows, sort_column, sort_reverse, using_default_sort,
                    initial_sort_applied, pending_results, completed_worker_count,
                    expected_worker_count, load_kwargs, deadlines, gen, loaded, ga, app, ent >>
    /\ seen' = {}
    /\ flushed' = {}

\* cancel_workers, called on its own
cancel_workers ==
    /\ active_workers # {} \/ is_loading \/ batch_timer
    /\ workers' = CancelAll(active_workers)
    /\ active_workers' = {}
    /\ is_loading' = FALSE
    /\ batch_timer' = FALSE
    /\ fin' = NoFin
    /\ genStatus' = [g \in 1..MaxGen |->
                       IF g = gen /\ is_loading THEN "cancelled" ELSE genStatus[g]]
    /\ UNCHANGED << kind, resources, rows, sort_column, sort_reverse, using_default_sort,
                    initial_sort_applied, pending_results, completed_worker_count,
                    expected_worker_count, load_kwargs, deadlines, gen, loaded, ga, app, ent >>
    /\ seen' = {}
    /\ flushed' = {}

\* a header click that leaves default-sort tracking as it is
on_data_table_header_selected_keeps_default(column_index) ==
    /\ fin' = NoFin
    /\ UNCHANGED << kind, pending_results, completed_worker_count, expected_worker_count,
                    active_workers, is_loading, batch_timer, load_kwargs, workers,
                    deadlines, gen, seen, genStatus, flushed, ga, app, ent >>
    /\ \E rev \in {IF sort_column = column_index THEN ~sort_reverse ELSE FALSE} :
       \E ss \in {[col |-> column_index, reverse |-> rev, using_default |-> using_default_sort,
                    initial_applied |-> initial_sort_applied]} :
       \E sorted \in {sort_resources(kind, resources, column_index, rev)} :
       \E lr \in {load_resources(kind, sorted, ss)} :
          /\ sort_column' = column_index
          /\ sort_reverse' = rev
          /\ loaded' = CallOf(sorted, ss, column_index, rev, lr)
          /\ resources' = lr.resources
          /\ rows' = lr.rows
          /\ using_default_sort' = lr.using_default
          /\ initial_sort_applied' = lr.initial_applied

\* on_data_table_header_selected(event) with event.column_index = column_index
on_data_table_header_selected(column_index) ==
    /\ fin' = NoFin
    /\ UNCHANGED << kind, pending_results, completed_worker_count, expected_worker_count,
                    active_workers, is_loading, batch_timer, load_kwargs, workers,
                    deadlines, gen, seen, genStatus, flushed, ga, app, ent >>
    /\ \E rev \in {IF sort_column = column_index THEN ~sort_reverse ELSE FALSE} :
       \E ss \in {[col |-> column_index, reverse |-> rev, using_default |-> FALSE,
                    initial_applied |-> initial_sort_applied]} :
       \E sorted \in {sort_resources(kind, resources, column_index, rev)} :
       \E lr \in {load_resources(kind, sorted, ss)} :
          /\ sort_column' = column_index
          /\ sort_reverse' = rev
          /\ loaded' = CallOf(sorted, ss, column_index, rev, lr)
          /\ resources' = lr.resources
          /\ rows' = lr.rows
          /\ using_default_sort' = lr.using_default
          /\ initial_sort_applied' = lr.initial_applied

Next ==
    \/ \E n \in 0..MaxConns, kw \in KwargsInputs : load_resources_parallel(n, kw)
    \/ \E w \in WorkerIds : WorkerSucceeds(w)
    \/ \E w \in WorkerIds : WorkerFails(w)
    \/ \E w \in WorkerIds : on_worker_state_changed(w)
    \/ flush_updates
    \/ \E g \in 1..MaxGen : timeout_handler(g)
    \/ cancel_workers
    \/ \E c \in ClickColumns : on_data_table_header_selected(c)

Spec == Init /\ [][Next]_vars

\* the loading protocol alone: the handlers that touch is_loading, the
\* accumulator, the workers and the timers (a header click touches none)
LoadNext ==
    \/ \E n \in 0..MaxConns, kw \in KwargsInputs : load_resources_parallel(n, kw)
    \/ \E w \in WorkerIds : WorkerSucceeds(w)
    \/ \E w \in WorkerIds : WorkerFails(w)
    \/ \E w \in WorkerIds : on_worker_state_changed(w)
    \/ flush_updates
    \/ \E g \in 1..MaxGen : timeout_handler(g)
    \/ cancel_workers

\* a timer that was set fires: the only step that takes g out of the pending
\* timers is timeout_handler(g), which is enabled exactly while g is pending
LiveSpec == Init /\ [][LoadNext]_vars /\ \A g \in 1..MaxGen : WF_deadlines(timer_elapses(g))

\* ------------------------------------------- ConnectionManager.get_all
\* what the connections of the manager do when get_all queries them: each
\* either raises or answers up to MaxItems records
FetchOutcomes == [raises : BOOLEAN, n : 0..MaxItems]

\* the records connection c answers to resource_class.get(...)
SyncItems(c, n) == [i \in 1..n |-> [id |-> <<0, c, i>>, name |-> <<97>>, check |-> <<99>>, status |-> <<i>>]]

WidgetUnchanged ==
    UNCHANGED << kind, resources, rows, sort_column, sort_reverse, using_default_sort,
                 initial_sort_applied, pending_results, completed_worker_count,
                 expected_worker_count, active_workers, is_loading, batch_timer,
                 load_kwargs, workers, deadlines, gen, seen, fin, genStatus, flushed,
                 loaded, app, ent >>

\* get_all(resource_type) is called on a manager of Len(outcomes) connections:
\* lines 154-169, an unknown resource type returns [] at once
get_all_begin(known, outcomes) ==
    /\ ga.pc = "idle"
    /\ ga' = [ga EXCEPT !.known = known, !.outcomes = outcomes,
                        !.pc = IF known THEN "loop" ELSE "returned"]
    /\ WidgetUnchanged

\* get_all_fetch without the try/except: the exception of a connection
\* leaves the loop and reaches the caller
get_all_fetch_unguarded ==
    /\ ga.pc = "loop"
    /\ ga.i < Len(ga.outcomes)
    /\ LET c == ga.i + 1
           o == ga.outcomes[c]
           items == SyncItems(c, o.n)
       IN ga' = IF o.raises
                THEN [ga EXCEPT !.i = c, !.queried = @ \cup {c}, !.pc = "raised"]
                ELSE [ga EXCEPT !.i = c, !.queried = @ \cup {c},
                                !.all_items = @ \o [k \in 1..o.n |-> SensuResource(items[k], c)],
                                !.success_count = @ + 1]
    /\ WidgetUnchanged

\* one pass of "for conn in self._connections.values()": lines 171-186
get_all_fetch ==
    /\ ga.pc = "loop"
    /\ ga.i < Len(ga.outcomes)
    /\ LET c == ga.i + 1
           o == ga.outcomes[c]
           items == SyncItems(c, o.n)
       IN ga' = IF o.raises
                THEN [ga EXCEPT !.i = c, !.queried = @ \cup {c},
                                !.error_count = @ + 1, !.errors = Append(@, c)]
                ELSE [ga EXCEPT !.i = c, !.queried = @ \cup {c},
                                !.all_items = @ \o [k \in 1..o.n |-> SensuResource(items[k], c)],
                                !.success_count = @ + 1]
    /\ WidgetUnchanged

\* get_all_return answering None as soon as one connection failed
get_all_return_any_error ==
    /\ ga.pc = "loop"
    /\ ga.i = Len(ga.outcomes)
    /\ ga' = [ga EXCEPT !.pc = "returned",
                        !.result = IF ga.error_count > 0
                                   THEN [none |-> TRUE, items |-> <<>>]
                                   ELSE [none |-> FALSE, items |-> ga.all_items]]
    /\ WidgetUnchanged

\* after the loop: lines 188-195
get_all_return ==
    /\ ga.pc = "loop"
    /\ ga.i = Len(ga.outcomes)
    /\ ga' = [ga EXCEPT !.pc = "returned",
                        !.result = IF ga.success_count = 0 /\ ga.error_count > 0
                                   THEN [none |-> TRUE, items |-> <<>>]
                                   ELSE [none |-> FALSE, items |-> ga.all_items]]
    /\ WidgetUnchanged

NextGetAll ==
    \/ \E known \in BOOLEAN, n \in 0..MaxConns :
          \E outcomes \in [1..n -> FetchOutcomes] : get_all_begin(known, outcomes)
    \/ get_all_fetch
    \/ get_all_return

SpecGetAll == Init /\ [][NextGetAll]_vars

\* -------------------------------------- ConnectionManager and the screens
\* self._connections[name] = conn that keeps the connection already there
SetConnection_first_wins(d, c) ==
    IF \E i \in 1..Len(d) : d[i].name = c.name
    THEN d
    ELSE Append(d, c)

\* self._connections[name] = conn on the dict d (kept as the sequence of its
\* values): a new name is appended, a name already there keeps its place
\* and gets the new connection
SetConnection(d, c) ==
    IF \E i \in 1..Len(d) : d[i].name = c.name
    THEN [i \in 1..Len(d) |-> IF d[i].name = c.name THEN c ELSE d[i]]
    ELSE Append(d, c)

\* a SensuConnection.__init__ that takes an entry without credentials
SensuConnection_lenient(entry, login_ok) ==
    IF entry.auth = "api_key" THEN [raised |-> TRUE, error |-> "NotImplementedError"]
    ELSE IF entry.auth = "password" /\ ~login_ok THEN [raised |-> TRUE, error |-> "login"]
    ELSE [raised |-> FALSE, error |-> "", conn |-> [name |-> entry.name, url |-> entry.url]]

\* SensuConnection(name=..., url=..., api_key=..., username=..., password=...):
\* raises for an api_key, logs in with username and password (client.login
\* answers or raises: login_ok), raises without credentials
SensuConnection(entry, login_ok) ==
    IF entry.auth = "api_key" THEN [raised |-> TRUE, error |-> "NotImplementedError"]
    ELSE IF entry.auth = "password"
         THEN IF login_ok
              THEN [raised |-> FALSE, error |-> "",
                    conn |-> [name |-> entry.name, url |-> entry.url]]
              ELSE [raised |-> TRUE, error |-> "login"]
    ELSE [raised |-> TRUE, error |-> "ValueError"]

\* get_connection(name) on a manager whose _connections is d
get_connection(d, name) ==
    IF \E i \in 1..Len(d) : d[i].name = name
    THEN d[CHOOSE i \in 1..Len(d) : d[i].name = name]
    ELSE NoConnection

\* list(self._connections.values()) read backwards
get_all_connections_reversed(d) == [i \in 1..Len(d) |-> d[Len(d) + 1 - i]]

\* get_all_connections() on a manager whose _connections is d
get_all_connections(d) == d

\* the widget and the get_all call are not touched
AppFrame ==
    UNCHANGED << kind, resources, rows, sort_column, sort_reverse, using_default_sort,
                 initial_sort_applied, pending_results, completed_worker_count,
                 expected_worker_count, active_workers, is_loading, batch_timer,
                 load_kwargs, workers, deadlines, gen, seen, fin, genStatus, flushed,
                 loaded, ga, ent >>

\* ConnectionManager.__init__ up to the loop: a new object with an empty
\* _connections, called by `by` with the configuration cfg
ConnectionManager(by, cfg) ==
    [app EXCEPT !.managers = Append(@, <<>>),
                !.build = [active |-> TRUE, by |-> by, cfg |-> cfg, i |-> 1,
                           mgr |-> Len(app.managers) + 1]]

\* ConfigLoadScreen: the configuration is loaded and decrypted and
\* ConnectionManager(config) is called
config_load ==
    /\ ~app.build.active
    /\ app.connection_manager = NoManager
    /\ Len(app.managers) < MaxBuilds
    /\ app' = ConnectionManager("config_load", app.file)
    /\ AppFrame

\* one iteration of the loop of _load_connections; an exception leaves the
\* constructor and is caught by the caller, which reports it
load_connections_step(login_ok) ==
    /\ app.build.active
    /\ app.build.i <= Len(app.build.cfg)
    /\ AppFrame
    /\ \E b \in {app.build} : \E conn_cfg \in {b.cfg[b.i]} :
          IF conn_cfg.name = ""
          THEN app' = [app EXCEPT !.build.i = b.i + 1]
          ELSE \E r \in {SensuConnection(conn_cfg, login_ok)} :
                  IF r.raised
                  THEN app' = [app EXCEPT
                                  !.build = NoBuild,
                                  !.last = [status |-> "raised", error |-> r.error,
                                            at |-> b.i, mgr |-> b.mgr, cfg |-> b.cfg],
                                  !.notified = IF b.by = "config_load"
                                               THEN "Failed to load config"
                                               ELSE "Error reloading connections"]
                  ELSE app' = [app EXCEPT
                                  !.build.i = b.i + 1,
                                  !.managers[b.mgr] = SetConnection(@, r.conn)]

\* the loop is over, the constructor returns and the caller stores the new
\* manager: self.app.connection_manager = ...
connection_manager_assigned ==
    /\ app.build.active
    /\ app.build.i > Len(app.build.cfg)
    /\ app' = [app EXCEPT !.build = NoBuild,
                          !.connection_manager = app.build.mgr,
                          !.last = [status |-> "ok", error |-> "", at |-> 0,
                                    mgr |-> app.build.mgr, cfg |-> app.build.cfg]]
    /\ AppFrame

\* MainScreen.load_all_data, for the list widget of this model
load_all_data ==
    /\ ~app.build.active
    /\ app.connection_manager # NoManager
    /\ \E conns \in {get_all_connections(app.managers[app.connection_manager])} :
          load_resources_parallel(Len(conns), "{}")

\* connections[i] = event.connection for the first entry of that name
ReplaceFirst(connections, connection) ==
    IF \E i \in 1..Len(connections) : connections[i].name = connection.name
    THEN [i \in 1..Len(connections) |->
            IF i = (CHOOSE j \in 1..Len(connections) :
                       /\ connections[j].name = connection.name
                       /\ \A k \in 1..(j - 1) : connections[k].name # connection.name)
            THEN connection ELSE connections[i]]
    ELSE connections

\* _save_config() and _reload_connection_manager() after the list of
\* connections became `connections`: the constructor is called with app.config
reload_connection_manager(connections) ==
    /\ Len(app.managers) < MaxBuilds
    /\ app' = [ConnectionManager("reload", connections)
                  EXCEPT !.config.connections = connections]

\* on_connection_detail_widget_connection_saved(event) with
\* event.connection = connection and event.is_new = is_new; the main screen
\* is pushed once app.connection_manager is set
on_connection_saved(connection, is_new) ==
    /\ ~app.build.active
    /\ app.connection_manager # NoManager
    /\ AppFrame
    /\ IF ~app.config.set
       THEN app' = [app EXCEPT !.notified = "Configuration not loaded"]
       ELSE IF is_new /\ \E i \in 1..Len(app.config.connections) :
                            app.config.connections[i].name = connection.name
            THEN app' = [app EXCEPT !.notified = "already exists"]
            ELSE reload_connection_manager(
                    IF is_new THEN Append(app.config.connections, connection)
                    ELSE ReplaceFirst(app.config.connections, connection))

\* connections[:] = [c for c in connections if c.get("name") != name]
WithoutName(connections, name) ==
    SelectSeq(connections, LAMBDA c : c.name # name)

\* on_connection_detail_widget_connection_deleted(event) with
\* event.connection_name = name
on_connection_deleted(name) ==
    /\ ~app.build.active
    /\ app.connection_manager # NoManager
    /\ AppFrame
    /\ IF ~app.config.set
       THEN app' = [app EXCEPT !.notified = "Configuration not loaded"]
       ELSE IF Len(WithoutName(app.config.connections, name)) < Len(app.config.connections)
            THEN reload_connection_manager(WithoutName(app.config.connections, name))
            ELSE app' = [app EXCEPT !.notified = "not found"]

\* the app from the loading of a configuration on
InitConn ==
    /\ InitWidget
    /\ \E file \in Configs : app = AppInit(file)
    /\ ent = EntInit(<<>>, << >>)

NextConn ==
    \/ config_load
    \/ \E login_ok \in BOOLEAN : load_connections_step(login_ok)
    \/ connection_manager_assigned
    \/ load_all_data
    \/ \E connection \in EditEntries, is_new \in BOOLEAN : on_connection_saved(connection, is_new)
    \/ \E name \in EntryNames \ {""} : on_connection_deleted(name)

SpecConn == InitConn /\ [][NextConn]_vars

\* ================================================= get_all: claims C7, C8
GaSucceeded == {c \in 1..Len(ga.outcomes) : ~ga.outcomes[c].raises}

\* C7: for a known resource type get_all returns None if and only if there is
\* at least one connection and the fetch of every connection raised; in every
\* other case it returns a list.
C7_NoneIffEveryConnectionFailed ==
    (ga.pc = "returned" /\ ga.known) =>
        (ga.result.none <=> (Len(ga.outcomes) >= 1 /\ GaSucceeded = {}))

\* C7 happens: two connections, both raised, None was returned
C7_Witness ==
    /\ ga.pc = "returned" /\ ga.known
    /\ Len(ga.outcomes) = 2 /\ GaSucceeded = {}
    /\ ga.result.none

RECURSIVE ItemsOfSucceeded(_, _)
\* the records of the connections 1..c that did not raise, each wrapped with
\* the connection it was fetched from, in the order of the connections
ItemsOfSucceeded(outcomes, c) ==
    IF c = 0 THEN <<>>
    ELSE ItemsOfSucceeded(outcomes, c - 1) \o
         (IF outcomes[c].raises THEN <<>>
          ELSE [k \in 1..outcomes[c].n |->
                  [data |-> SyncItems(c, outcomes[c].n)[k], connection |-> c,
                   connection_name |-> ConnName(c)]])

\* C8: an exception raised by the fetch of any connection never reaches the
\* caller of get_all and never keeps another connection from being queried;
\* when at least one connection succeeds the returned list holds every record
\* of every successful connection exactly once, wrapped with the connection
\* it came from, and no record of a failed connection.
C8_FailureIsolation ==
    /\ ga.pc # "raised"
    /\ (ga.pc = "returned" /\ ga.known) =>
         /\ ga.queried = 1..Len(ga.outcomes)
         /\ GaSucceeded # {} =>
              /\ ~ga.result.none
              /\ ga.result.items = ItemsOfSucceeded(ga.outcomes, Len(ga.outcomes))

\* C8 happens: the first connection raised, the second answered two records
C8_Witness ==
    /\ ga.pc = "returned" /\ ga.known
    /\ Len(ga.outcomes) = 2
    /\ ga.outcomes[1].raises /\ ~ga.outcomes[2].raises /\ ga.outcomes[2].n = 2
    /\ Len(ga.result.items) = 2

\* ======================================== the asynchronous path: C1 .. C6
ItemSet(seq) == {seq[i] : i \in 1..Len(seq)}

\* the connections whose worker of the finalized generation was merged as a
\* Success, and those whose worker of that generation was counted as an error
OwnOk(f) == {e.w[2] : e \in {x \in f.seen : x.ok /\ x.w[1] = f.gen}}
OwnFailed(f) == {e.w[2] : e \in {x \in f.seen : ~x.ok /\ x.w[1] = f.gen}}

RECURSIVE WithEmptySuccess(_, _)
\* the accumulator pend, with an empty Success added for each name of 1..n it lacks
WithEmptySuccess(pend, n) ==
    IF n = 0 THEN pend
    ELSE LET p == WithEmptySuccess(pend, n - 1)
         IN IF n \in DictKeys(p) THEN p ELSE Append(p, [name |-> n, resources |-> <<>>])

\* C1: when every one of the N >= 1 connections of a generation reports a
\* failure, the widget after finalize differs from the widget after a
\* finalize in which all N connections succeeded with zero items.
C1_TotalFailureDistinguished ==
    (/\ fin.valid /\ fin.expected >= 1
     /\ OwnFailed(fin) = 1..fin.expected
     /\ \A e \in fin.seen : ~e.ok)
    => Widget # FinalizeResult(kind, WithEmptySuccess(<<>>, fin.expected), fin.expected,
                               fin.ss, fin.expected)

\* C2: the resources a finalize displays are exactly the union of the items
\* returned by the connections that reported Success in that same generation,
\* none missing, none twice, none of an earlier generation.
C2_FinalIsUnionOfOwnSuccesses ==
    fin.valid =>
        /\ ItemSet(resources) = UNION {ItemSet(WorkerResult(c, fin.gen)) : c \in OwnOk(fin)}
        /\ Cardinality(ItemSet(resources)) = Len(resources)

\* C2 without results of earlier generations among the merged outcomes (holds)
C2_WithoutStaleOutcomes ==
    (fin.valid /\ \A e \in fin.seen : e.w[1] = fin.gen) =>
        /\ ItemSet(resources) = UNION {ItemSet(WorkerResult(c, fin.gen)) : c \in OwnOk(fin)}
        /\ Cardinality(ItemSet(resources)) = Len(resources)

\* C3: a finalize in which some connection succeeded and some connection
\* failed or never reported delivers degraded = true and the names of those
\* connections: the widget it leaves differs from the widget of a finalize in
\* which those connections had succeeded with zero items.
C3_DegradedOutcomeDelivered ==
    (/\ fin.valid
     /\ \A e \in fin.seen : e.w[1] = fin.gen
     /\ OwnOk(fin) # {}
     /\ (1..fin.expected) \ OwnOk(fin) # {})
    => Widget # FinalizeResult(kind, WithEmptySuccess(fin.pend, fin.expected), fin.expected,
                               fin.ss, fin.expected)

\* the queued outcome of worker w is handed to on_worker_state_changed
Delivery(w) == workers[w] \in {"success", "error"} /\ workers'[w] = "done"

\* C4: an outcome of a generation that was superseded by a second load()
\* before it finalized changes neither the accumulator nor the completion
\* count of the newer generation, nor what is displayed.
C4_SupersededOutcomesDiscarded ==
    [][\A w \in WorkerIds :
          (Delivery(w) /\ genStatus[w[1]] = "superseded")
          => UNCHANGED << pending_results, completed_worker_count, resources, rows >>]_vars

\* C5: _finalize_load runs only for a generation that is loading, hence at
\* most once per load(), and after the finalize of a generation no later
\* outcome of that generation is merged into the accumulator or the display.
C5_FinalizesOnceAndMergesNothingLater ==
    [][/\ fin'.valid => (is_loading /\ genStatus[gen] = "loading")
       /\ \A w \in WorkerIds :
            (Delivery(w) /\ genStatus[w[1]] = "finalized")
            => UNCHANGED << pending_results, completed_worker_count, resources, rows >>]_vars

\* the first half of C5: _finalize_load runs only while the generation that
\* was loaded last is loading, and ends that, so it runs at most once between
\* a load() and the next (holds)
C5_FinalizesAtMostOnce ==
    [][fin'.valid => (is_loading /\ ~is_loading' /\ genStatus[gen] = "loading"
                      /\ genStatus'[gen] = "finalized" /\ gen' = gen)]_vars

\* a generation with N >= 1 connections that is loading does not load for
\* ever although connections never report: it is finalized, unless a second
\* load() supersedes it or cancel_workers cancels it first (holds)
C6_EventuallyFinalized ==
    \A g \in 1..MaxGen :
        (genStatus[g] = "loading" /\ expected_worker_count >= 1)
        ~> (genStatus[g] \in {"finalized", "superseded", "cancelled"})

\* C6: a generation with N >= 1 connections that is neither superseded nor
\* cancelled is eventually finalized although connections never report,
\* because its deadline fires, and the update of a finalize by deadline holds
\* the data of exactly the connections of that generation whose Success was
\* reported before the deadline.
C6_DeadlineFinalizes ==
    /\ C6_EventuallyFinalized
    /\ [](fin.valid /\ fin.by = "deadline" =>
            /\ ItemSet(resources) = UNION {ItemSet(WorkerResult(c, fin.gen)) : c \in OwnOk(fin)}
            /\ Len(resources) = Cardinality(ItemSet(resources))
            /\ DictKeys(fin.pend) = OwnOk(fin))

\* what the finalize by deadline does show: exactly what was accumulated, one
\* entry for each connection name whose Success was merged while the
\* generation was loading, from a worker of whatever generation (holds)
C6_DeadlineShowsAccumulated ==
    [](fin.valid /\ fin.by = "deadline" =>
            /\ ItemSet(resources) = ItemSet(Combine(fin.pend))
            /\ Len(resources) = Len(Combine(fin.pend))
            /\ DictKeys(fin.pend) = {e.w[2] : e \in {x \in fin.seen : x.ok}}
            /\ \A i \in 1..Len(fin.pend) :
                 \E e \in fin.seen : /\ e.ok /\ e.w[2] = fin.pend[i].name
                                     /\ fin.pend[i].resources = WorkerResult(e.w[2], e.w[1]))

\* ================================================================ C9, C10
\* C9: within one generation the names in pending_results never shrink, so a
\* flush and the final update cover every connection an earlier flush of the
\* generation covered.
C9_AccumulatorOnlyGrows ==
    [][(is_loading /\ gen' = gen) =>
         /\ DictKeys(pending_results) \subseteq
              (IF fin'.valid THEN DictKeys(fin'.pend) ELSE DictKeys(pending_results'))
         /\ is_loading' => flushed \subseteq flushed'
         /\ (is_loading' /\ flushed' # flushed) => flushed' = DictKeys(pending_results)
         /\ fin'.valid => flushed \subseteq DictKeys(fin'.pend)]_vars

\* C9 happens: a flush showed one connection, the final update two
C9_Witness ==
    /\ fin.valid
    /\ fin.flushed # {}
    /\ fin.flushed # DictKeys(fin.pend)
    /\ fin.flushed \subseteq DictKeys(fin.pend)

\* the accumulator filled in another order of arrival
ArrivalOrders(pend) ==
    {[i \in 1..Len(pend) |-> pend[p[i]]] : p \in Permutations(1..Len(pend))}

\* the sort load_resources applies in sort state ss, and whether it orders at all
SortApplied(k, ss) ==
    IF ss.using_default \/ ss.col = NoColumn
    THEN [active |-> k = "events", by |-> [default |-> TRUE, col |-> NoColumn, reverse |-> FALSE]]
    ELSE [active |-> TRUE, by |-> [default |-> FALSE, col |-> ss.col, reverse |-> ss.reverse]]

\* no two resources of different connections have the same sort key
NoCrossTies(k, by, items) ==
    \A i, j \in 1..Len(items) :
        items[i].connection # items[j].connection => SortKey(k, by, items[i]) # SortKey(k, by, items[j])

C11_ReloadIdempotent ==
    /\ [][loaded'.again =>
             /\ resources' = resources
             /\ sort_column' = sort_column
             /\ sort_reverse' = sort_reverse
             /\ using_default_sort' = using_default_sort]_vars
    /\ [](loaded.valid =>
             \A lr \in {load_resources(kind, resources, SortState)} :
                 /\ lr.resources = resources
                 /\ lr.using_default = using_default_sort)

\* C11 happens: load_resources was called twice in a row with the same two or
\* more resources, which the sort in force reorders
C11_Witness ==
    /\ loaded.again
    /\ Len(loaded.res) >= 2
    /\ resources # loaded.res

\* the sequence res is ordered by the key of column col in direction reverse
OrderedBy(k, col, reverse, res) ==
    \A i, j \in 1..Len(res) :
        i < j => ~Before(reverse, get_sort_key(k, res[j], col), get_sort_key(k, res[i], col))

\* C12: once the user has sorted by a column, every sequence load_resources
\* leaves (by a partial flush, a finalize or a header click) is entirely
\* ordered by that column's key in the active direction, so items that were
\* added stand at their sorted positions.
C12_SortPersists ==
    (sort_column # NoColumn /\ ~using_default_sort)
    => OrderedBy(kind, sort_column, sort_reverse, resources)

\* C12 happens: with a column pinned, a finalize added the resources of a
\* connection to those an earlier flush had shown, and one of the added
\* resources stands before one that was shown already
C12_Witness ==
    /\ fin.valid
    /\ fin.ss.col # NoColumn /\ ~fin.ss.using_default
    /\ fin.flushed # {}
    /\ \E i, j \in 1..Len(resources) :
          /\ i < j
          /\ resources[i].connection \notin fin.flushed
          /\ resources[j].connection \in fin.flushed

\* the collection is in explicit mode: the user pinned a column
Explicit == sort_column # NoColumn /\ ~using_default_sort

\* C13: a click on the header of the active sort column flips the direction
\* and keeps the column; a click on any other header pins that column
\* ascending; either way the collection is in explicit mode afterwards, and
\* in explicit mode no step other than a header click (load, worker outcome,
\* flush, finalize, deadline, cancel) changes the pinned column, the
\* direction or the mode.
C13_UserSortTransition ==
    [][/\ \A c \in ClickColumns :
            on_data_table_header_selected(c) =>
                /\ sort_column' = c
                /\ sort_reverse' = (IF sort_column = c THEN ~sort_reverse ELSE FALSE)
                /\ Explicit'
       /\ (Explicit /\ ~\E c \in ClickColumns : on_data_table_header_selected(c)) =>
            /\ Explicit'
            /\ UNCHANGED << sort_column, sort_reverse >>]_vars

\* C13 happens: the user pinned a column, flipped it, pinned another column,
\* and a finalize ran with that column pinned
C13_Witness ==
    /\ fin.valid
    /\ fin.ss.col = 2 /\ ~fin.ss.using_default
    /\ Explicit /\ sort_column = 2
    /\ Len(resources) >= 2
    /\ loaded.valid /\ loaded.res # resources

\* ============================================ timers and cancel: C18 .. C20
\* C18: in the state right after a generation finalizes (by completion or by
\* deadline) neither the flush timer nor the deadline timer that generation
\* armed is still pending.
C18_FinalizeCancelsTimers ==
    fin.valid => (~batch_timer /\ fin.gen \notin deadlines)

\* the flush timer alone: _finalize_load stops it (holds)
C18_FinalizeStopsFlushTimer ==
    fin.valid => ~batch_timer

\* C19: a generation that is loading is finalized by a deadline only when the
\* deadline timer armed by its own load() fires; the timer of an earlier
\* generation never finalizes a later one.
C19_OnlyOwnDeadlineFinalizes ==
    [][(fin'.valid /\ fin'.by = "deadline")
          => (gen \in deadlines /\ gen \notin deadlines')]_vars

\* a step that is not a header click: it leaves the sort state alone
NoHeaderClick == UNCHANGED << sort_column, sort_reverse >>

\* C20: after cancel_workers cancelled a generation and until the next
\* load(), no worker outcome, flush timer or deadline updates the display,
\* changes the displayed resources or adds to the accumulator.
C20_CancelledStaysQuiet ==
    [][(gen >= 1 /\ genStatus[gen] = "cancelled" /\ gen' = gen /\ NoHeaderClick)
          => /\ UNCHANGED << resources, rows, pending_results, completed_worker_count,
                             is_loading >>
             /\ ~fin'.valid]_vars

\* C20 happens: a generation was cancelled while an outcome of one of its
\* workers was queued for the widget and its deadline timer was pending
C20_Witness ==
    /\ gen >= 1 /\ genStatus[gen] = "cancelled"
    /\ ~is_loading
    /\ \E w \in WorkerIds : w[1] = gen /\ workers[w] = "success"
    /\ gen \in deadlines
    /\ pending_results # <<>>

\* ========================================= the connection set: C14 .. C17
\* the entries of cfg that have a name
Named(cfg) == {i \in 1..Len(cfg) : cfg[i].name # ""}

\* the first and the last entry of cfg with the name of entry i
FirstOfName(cfg, i) == CHOOSE j \in Named(cfg) :
                          /\ cfg[j].name = cfg[i].name
                          /\ \A k \in Named(cfg) : cfg[k].name = cfg[i].name => j <= k
LastOfName(cfg, i) == CHOOSE j \in Named(cfg) :
                         /\ cfg[j].name = cfg[i].name
                         /\ \A k \in Named(cfg) : cfg[k].name = cfg[i].name => k <= j

\* the manager the last constructor call returned
Built == app.managers[app.last.mgr]

\* C14: when several entries carry one name, the manager that was built holds
\* exactly one connection of that name, the one built from the last such
\* entry; and a constructor call that raised did so for the credentials or
\* the login of the entry it was at, never for a name seen before.
C14_DuplicateNamesLastWins ==
    /\ app.last.status = "ok" =>
          \A i \in Named(app.last.cfg) :
             /\ Cardinality({k \in 1..Len(Built) : Built[k].name = app.last.cfg[i].name}) = 1
             /\ get_connection(Built, app.last.cfg[i].name).url
                   = app.last.cfg[LastOfName(app.last.cfg, i)].url
    /\ app.last.status = "raised" =>
          \/ app.last.error = "ValueError" /\ app.last.cfg[app.last.at].auth = "none"
          \/ app.last.error = "NotImplementedError" /\ app.last.cfg[app.last.at].auth = "api_key"
          \/ app.last.error = "login" /\ app.last.cfg[app.last.at].auth = "password"

\* C14 happens: a manager was built from a configuration with two entries of
\* one name
C14_Witness ==
    /\ app.last.status = "ok"
    /\ \E i, j \in Named(app.last.cfg) : i < j /\ app.last.cfg[i].name = app.last.cfg[j].name
    /\ Len(Built) = 2

\* no manager came out of the last constructor call and the app holds none
NothingBuilt ==
    /\ app.connection_manager = NoManager
    /\ app.last.status # "ok"

EntryOf(cfg, c) == CHOOSE i \in 1..Len(cfg) : cfg[i].url = c.url

\* get_connection agrees with get_all_connections on every name
GetAgreesWithAll(d) ==
    \A name \in EntryNames \ {""} :
       LET found == {k \in 1..Len(get_all_connections(d)) :
                        get_all_connections(d)[k].name = name}
       IN  IF found = {} THEN get_connection(d, name) = NoConnection
           ELSE /\ Cardinality(found) = 1
                /\ \A k \in found : get_connection(d, name) = get_all_connections(d)[k]

\* C16: get_all_connections returns one connection per name, each at the
\* configuration position of the entry it was built from (so in
\* configuration order), and get_connection(name) returns the member of
\* that name, None when there is none.
C16_AllInConfigurationOrder ==
    app.last.status = "ok" =>
       /\ GetAgreesWithAll(Built)
       /\ \A k, l \in 1..Len(Built) :
             k < l => EntryOf(app.last.cfg, get_all_connections(Built)[k])
                         < EntryOf(app.last.cfg, get_all_connections(Built)[l])

\* C16 as amended: the connection of a name is built from the last entry of
\* that name and sits where the first entry of that name puts it.
C16_AllInFirstMentionOrder ==
    app.last.status = "ok" =>
       /\ GetAgreesWithAll(Built)
       /\ \A k \in 1..Len(Built) :
             EntryOf(app.last.cfg, get_all_connections(Built)[k])
                = LastOfName(app.last.cfg, EntryOf(app.last.cfg, get_all_connections(Built)[k]))
       /\ \A k, l \in 1..Len(Built) :
             k < l => FirstOfName(app.last.cfg, EntryOf(app.last.cfg, get_all_connections(Built)[k]))
                         < FirstOfName(app.last.cfg, EntryOf(app.last.cfg, get_all_connections(Built)[l]))

\* C16 happens: a name occurs before and after another name, the manager was
\* built and holds both
C16_Witness ==
    /\ app.last.status = "ok"
    /\ Len(app.last.cfg) = 3
    /\ app.last.cfg[1].name = app.last.cfg[3].name
    /\ app.last.cfg[1].name # "" /\ app.last.cfg[2].name # ""
    /\ app.last.cfg[2].name # app.last.cfg[1].name
    /\ Len(get_all_connections(Built)) = 2

\* the user adds a connection whose name no configured connection has
AddsConnection ==
    \E connection \in EditEntries :
       /\ \A i \in 1..Len(app.file) : app.file[i].name # connection.name
       /\ on_connection_saved(connection, TRUE)

\* the manager the app holds, and every manager a constructor is not
\* working on, stays as it is
ManagersNotMutated ==
    \A m \in 1..Len(app.managers) :
       (m = app.connection_manager \/ m # app.build.mgr) => app'.managers[m] = app.managers[m]

\* app.connection_manager changes only when a constructor has returned, and
\* stays when it raised
SwapOnlyOnSuccess ==
    /\ app'.connection_manager # app.connection_manager
          => (app.build.active /\ app'.last.status = "ok"
              /\ app'.connection_manager = app'.last.mgr)
    /\ (app.build.active /\ app'.last.status = "raised")
          => app'.connection_manager = app.connection_manager

\* a step of the screens leaves the aggregation in flight alone
AggregationUntouched ==
    app' # app => UNCHANGED << expected_worker_count, active_workers, workers,
                               pending_results, is_loading >>

\* C17: adding (editing, deleting) a connection builds a new
\* ConnectionManager and puts it in app.connection_manager in one step; no
\* manager already built is mutated; when the rebuild fails the previous
\* manager stays; the aggregation in flight keeps its workers and its
\* expected_worker_count.
C17_ReconfigurationIsSwap ==
    [][/\ AddsConnection => (app'.build.active /\ app'.build.by = "reload")
       /\ ManagersNotMutated
       /\ SwapOnlyOnSuccess
       /\ AggregationUntouched]_vars

\* the frame part of C17 alone (holds)
C17_SwapFrame ==
    [][ManagersNotMutated /\ SwapOnlyOnSuccess /\ AggregationUntouched]_vars

\* ============================================ the flush timer: C21 .. C23
\* the widget handles the outcome of worker w, a worker of the generation
\* that is loading, and the outcome does not complete the generation
HandledShortOfComplete(w) ==
    /\ Delivery(w)
    /\ w[1] = gen
    /\ is_loading
    /\ completed_worker_count + 1 < expected_worker_count

FlushFires ==
    /\ batch_timer /\ ~batch_timer'
    /\ gen' = gen
    /\ ~fin'.valid
    /\ genStatus' = genStatus

\* C22: a flush timer that fires while the generation is loading shows the
\* merge of everything accumulated so far and leaves the generation loading,
\* with the accumulator, the two counts and the workers unchanged and the
\* flush timer cleared; a flush timer that fires when nothing is loading
\* shows nothing.
C22_FlushIsPartialUpdate ==
    [][FlushFires =>
          /\ ~batch_timer'
          /\ UNCHANGED << pending_results, completed_worker_count, expected_worker_count,
                          active_workers, workers, is_loading, deadlines >>
          /\ IF is_loading
             THEN \A lr \in {load_resources(kind, Combine(pending_results), SortState)} :
                     /\ resources' = lr.resources
                     /\ rows' = lr.rows
             ELSE UNCHANGED << resources, rows >>]_vars

\* C22 happens: a flush has shown the records of one connection while the
\* other is outstanding, and the generation is still loading
C22_Witness ==
    /\ is_loading /\ ~batch_timer
    /\ flushed # {}
    /\ expected_worker_count = 2 /\ Len(pending_results) = 1
    /\ Len(resources) = Len(Combine(pending_results))
    /\ Len(resources) >= 1

\* C23: a finalize by completion happens only when every expected connection
\* of the loading generation has reported in that generation; a second report
\* under the name of a connection that already reported does not count.
C23_CompleteMeansAllReported ==
    (fin.valid /\ fin.by = "complete") =>
        (OwnOk(fin) \cup OwnFailed(fin)) = 1..fin.expected

\* the same when no outcome of an earlier generation was handled (holds)
C23_WithoutStaleOutcomes ==
    (fin.valid /\ fin.by = "complete" /\ \A e \in fin.seen : e.w[1] = fin.gen) =>
        (OwnOk(fin) \cup OwnFailed(fin)) = 1..fin.expected

\* ================================================= the sort keys: C24, C26
\* the values of the numeric attribute (event status, check interval): the
\* attribute is missing, or a number ("10" is before "5" as text)
StatusInputs == {<<>>, <<5>>, <<10>>}

\* the names of the entity: "a", "B"; the names of the check: "c", "D"
NameInputs == {<<97>>, <<66>>}
CheckInputs == {<<99>>, <<68>>}

\* the lists of resources of one connection the sort is given; the n-th
\* record is told apart by its id
SortInputs ==
    UNION {{[i \in 1..n |-> SensuResource([id |-> <<0, 1, i>>, name |-> f[i][1],
                                           check |-> f[i][2], status |-> f[i][3]], 1)] :
               f \in [1..n -> NameInputs \X CheckInputs \X StatusInputs]} : n \in 0..MaxLen}

\* the column that sorts numerically: Status of events, Interval of checks
NumericColumn(k) == IF k = "events" THEN 2 ELSE 3

\* the columns clicked in the sort specification: the numeric column of
\* either kind (a text column for the other kind)
SortColumns == {2, 3}

\* a widget that has just shown the list res with load_resources (as a
\* finalize does), nothing loading
InitSort ==
    /\ kind \in Kinds
    /\ \E res \in SortInputs :
       \E lr \in {load_resources(kind, res, [col |-> NoColumn, reverse |-> FALSE,
                                             using_default |-> FALSE,
                                             initial_applied |-> FALSE])} :
          /\ resources = lr.resources
          /\ rows = lr.rows
          /\ using_default_sort = lr.using_default
          /\ initial_sort_applied = lr.initial_applied
          /\ loaded = [valid |-> TRUE, res |-> res,
                       after |-> [col |-> NoColumn, reverse |-> FALSE,
                                  using_default |-> lr.using_default,
                                  initial_applied |-> lr.initial_applied],
                       again |-> FALSE]
    /\ sort_column = NoColumn
    /\ sort_reverse = FALSE
    /\ pending_results = <<>>
    /\ completed_worker_count = 0
    /\ expected_worker_count = 0
    /\ active_workers = {}
    /\ is_loading = FALSE
    /\ batch_timer = FALSE
    /\ load_kwargs = "{}"
    /\ workers = [w \in WorkerIds |-> "none"]
    /\ deadlines = {}
    /\ gen = 0
    /\ seen = {}
    /\ fin = NoFin
    /\ genStatus = [g \in 1..MaxGen |-> "none"]
    /\ flushed = {}
    /\ ga = GaIdle
    /\ app = AppInit(<<>>)
    /\ ent = EntInit(<<>>, << >>)

\* load_resources(resources) called with the records shown, in the order p:
\* a flush or finalize that delivers the same records in another order
load_resources_again(p) ==
    /\ fin' = NoFin
    /\ UNCHANGED << kind, sort_column, sort_reverse, pending_results, completed_worker_count,
                    expected_worker_count, active_workers, is_loading, batch_timer,
                    load_kwargs, workers, deadlines, gen, seen, genStatus, flushed, ga, app,
                    ent >>
    /\ \E res \in {[i \in 1..Len(resources) |-> resources[p[i]]]} :
       \E lr \in {load_resources(kind, res, SortState)} :
          /\ loaded' = CallOf(res, SortState, sort_column, sort_reverse, lr)
          /\ resources' = lr.resources
          /\ rows' = lr.rows
          /\ using_default_sort' = lr.using_default
          /\ initial_sort_applied' = lr.initial_applied

NextSort ==
    \/ \E c \in SortColumns : on_data_table_header_selected(c)
    \/ \E p \in Permutations(1..Len(resources)) : load_resources_again(p)

SpecSort == InitSort /\ [][NextSort]_vars

\* the numeric attribute of r is a valid number
HasNumber(r) == r.data.status # <<>>

\* C24: under a user sort on the numeric column, in either direction, every
\* resource whose value is missing or not a number comes after every
\* resource with a valid number, and the valid numbers are in numeric order
\* in the active direction.
C24_NumericColumnOrder ==
    (Explicit /\ sort_column = NumericColumn(kind)) =>
        \A i, j \in 1..Len(resources) : i < j =>
           /\ ~(HasNumber(resources[j]) /\ ~HasNumber(resources[i]))
           /\ (HasNumber(resources[i]) /\ HasNumber(resources[j])) =>
                 IF sort_reverse
                 THEN resources[i].data.status[1] >= resources[j].data.status[1]
                 ELSE resources[i].data.status[1] <= resources[j].data.status[1]

\* the valid numbers alone are in numeric order in the active direction (holds)
C24_NumbersInNumericOrder ==
    (Explicit /\ sort_column = NumericColumn(kind)) =>
        \A i, j \in 1..Len(resources) :
           (i < j /\ HasNumber(resources[i]) /\ HasNumber(resources[j])) =>
                 IF sort_reverse
                 THEN resources[i].data.status[1] >= resources[j].data.status[1]
                 ELSE resources[i].data.status[1] <= resources[j].data.status[1]

\* =================================== EntityListWidget.preprocess_resources
\* {"ok": 0, "warning": 0, "critical": 0}
ZeroCounts == [ok |-> 0, warning |-> 0, critical |-> 0]

\* the loop body of _calculate_entity_check_counts that counts every status
\* as ok
CountEvent_any_status_ok(counts, event) ==
    IF event.data.entity = <<>> THEN counts
    ELSE LET key == <<event.data.entity, event.connection_name>>
             c == IF key \in DOMAIN counts THEN counts ELSE counts @@ (key :> ZeroCounts)
         IN  IF event.data.check = <<>> THEN c
             ELSE [c EXCEPT ![key].ok = @ + 1]

\* the loop body of _calculate_entity_check_counts: an event without entity
\* name is skipped, the entry of (entity name, connection name) is made when
\* missing, and a check status 0, 1 or 2 is counted.  entity is the name
\* (<<>> when there is none), check is <<status>> (<<>> when there is none)
CountEvent(counts, event) ==
    IF event.data.entity = <<>> THEN counts
    ELSE LET key == <<event.data.entity, event.connection_name>>
             c == IF key \in DOMAIN counts THEN counts ELSE counts @@ (key :> ZeroCounts)
         IN  IF event.data.check = <<>> THEN c
             ELSE IF event.data.check[1] = 0 THEN [c EXCEPT ![key].ok = @ + 1]
             ELSE IF event.data.check[1] = 1 THEN [c EXCEPT ![key].warning = @ + 1]
             ELSE IF event.data.check[1] = 2 THEN [c EXCEPT ![key].critical = @ + 1]
             ELSE c

RECURSIVE CountEvents(_, _)
\* "for event in events:" from the table counts on
CountEvents(counts, events) ==
    IF events = <<>> THEN counts
    ELSE CountEvents(CountEvent(counts, Head(events)), Tail(events))

\* _calculate_entity_check_counts(events): the table is emptied and refilled
calculate_entity_check_counts(events) == CountEvents(<< >>, events)

\* the events handed over: entity "a", "b" or none, connection 1 or 2, no
\* check or a check with status 0 .. 3
EventInputs ==
    {SensuResource([entity |-> e, check |-> c], conn) :
        e \in {<<>>, <<97>>, <<98>>}, c \in {<<>>, <<0>>, <<1>>, <<2>>, <<3>>}, conn \in 1..2}

\* the keyword argument events: not given (None) or a list of events
EventsArguments ==
    {[supplied |-> FALSE, events |-> <<>>]}
    \cup {[supplied |-> TRUE, events |-> ev] :
             ev \in UNION {[1..n -> EventInputs] : n \in 0..MaxLen}}

\* the entities shown: entity "a" on connections 1 and 2
EntityInputs ==
    {<<>>,
     << SensuResource([name |-> <<97>>], 1), SensuResource([name |-> <<97>>], 2) >>}

\* the side table before the call: empty (with no entities shown), or left
\* by an earlier call
CountsInputs ==
    {<< >>,
     calculate_entity_check_counts(<< SensuResource([entity |-> <<97>>, check |-> <<2>>], 1),
                                      SensuResource([entity |-> <<99>>, check |-> <<0>>], 2) >>)}

\* preprocess_resources(resources, **kwargs) with kwargs.get('events') = arg
preprocess_resources(arg) ==
    /\ ent' = [ent EXCEPT !.entity_check_counts =
                              IF arg.supplied THEN calculate_entity_check_counts(arg.events)
                              ELSE @,
                          !.events = arg,
                          !.before = ent.entity_check_counts,
                          !.calls = @ + 1]
    /\ UNCHANGED << kind, resources, rows, sort_column, sort_reverse, using_default_sort,
                    initial_sort_applied, pending_results, completed_worker_count,
                    expected_worker_count, active_workers, is_loading, batch_timer,
                    load_kwargs, workers, deadlines, gen, seen, fin, genStatus, flushed,
                    loaded, ga, app >>

InitPre ==
    /\ InitWidget
    /\ app = AppInit(<<>>)
    /\ \E entities \in EntityInputs, counts \in CountsInputs :
          /\ (entities = <<>>) <=> (counts = << >>)
          /\ ent = EntInit(entities, counts)

\* one call, from either table
NextPre ==
    /\ ent.calls < 1
    /\ \E arg \in EventsArguments : preprocess_resources(arg)

SpecPre == InitPre /\ [][NextPre]_vars

\* the events of the list ev of entity e on connection c whose check has
\* status st
EventsWith(ev, e, c, st) ==
    {i \in 1..Len(ev) : /\ ev[i].data.entity = e /\ ev[i].connection = c
                        /\ ev[i].data.check = <<st>>}

\* C25: preprocess_resources changes nothing but the side table: the list of
\* entities and the events are as before, and after a call with events the
\* side table has an entry for exactly the (entity name, connection name)
\* pairs of the events, holding the number of events of that pair with status
\* 0, 1 and 2, whatever the table held before.
C25_PreprocessOnlySideTable ==
    /\ [][ent'.calls # ent.calls
            => /\ ent'.resources = ent.resources
               /\ UNCHANGED << resources, rows, pending_results >>]_vars
    /\ [](ent.calls >= 1 =>
            IF ent.events.supplied
            THEN /\ DOMAIN ent.entity_check_counts
                      = {<<ent.events.events[i].data.entity, ConnName(ent.events.events[i].connection)>> :
                            i \in {j \in 1..Len(ent.events.events) :
                                      ent.events.events[j].data.entity # <<>>}}
                 /\ \A e \in {<<97>>, <<98>>, <<99>>}, c \in 1..2 :
                       <<e, ConnName(c)>> \in DOMAIN ent.entity_check_counts =>
                          ent.entity_check_counts[<<e, ConnName(c)>>]
                             = [ok |-> Cardinality(EventsWith(ent.events.events, e, c, 0)),
                                warning |-> Cardinality(EventsWith(ent.events.events, e, c, 1)),
                                critical |-> Cardinality(EventsWith(ent.events.events, e, c, 2))]
            ELSE ent.entity_check_counts = ent.before)

\* C25 happens: a table left by an earlier call was rebuilt from three events,
\* two of one entity on one connection with different status and one with a
\* status that is not counted
C25_Witness ==
    /\ ent.calls = 1 /\ ent.events.supplied
    /\ ent.before # << >>
    /\ Len(ent.events.events) = 3
    /\ ent.resources # <<>>
    /\ <<<<97>>, ConnName(1)>> \in DOMAIN ent.entity_check_counts
    /\ ent.entity_check_counts[<<<<97>>, ConnName(1)>>] = [ok |-> 1, warning |-> 0, critical |-> 1]
    /\ \E i \in 1..3 : ent.events.events[i].data.check = <<3>>

\* a goes before b, or ties with it, in the default order of events: status
\* descending, then entity name, then check name, both without case
DefaultBeforeOrTie(a, b) ==
    \/ a.data.status[1] > b.data.status[1]
    \/ /\ a.data.status[1] = b.data.status[1]
       /\ \/ LexLess(Lower(a.data.name), Lower(b.data.name))
          \/ /\ Lower(a.data.name) = Lower(b.data.name)
             /\ ~LexLess(Lower(b.data.check), Lower(a.data.check))

\* C26: while no user sort is pinned, what load_resources shows is in the
\* default order of the kind whatever the order of the list it was given:
\* events by status descending, then entity name, then check name, names
\* compared without case; a kind without default order in the order given.
C26_DefaultOrderRecomputed ==
    (loaded.valid /\ ~Explicit) =>
        /\ using_default_sort
        /\ IF kind = "events"
           THEN \A i, j \in 1..Len(resources) :
                   (i < j /\ HasNumber(resources[i]) /\ HasNumber(resources[j]))
                      => DefaultBeforeOrTie(resources[i], resources[j])
           ELSE resources = loaded.res

\* C26 happens: three events with numbers were given again in another order
\* and are shown in an order that is not the order given
C26_Witness ==
    /\ kind = "events" /\ using_default_sort /\ ~Explicit
    /\ loaded.valid /\ loaded.again = FALSE
    /\ Len(resources) = 3 /\ resources # loaded.res
    /\ \A i \in 1..3 : HasNumber(resources[i])
    /\ \E i, j \in 1..3 : /\ resources[i].data.status = resources[j].data.status
                          /\ resources[i].data.name = <<97>> /\ resources[j].data.name = <<66>>
    /\ \E i \in 1..3 : loaded.res[i].data.id # <<0, 1, i>>

\* =================================================================== C27
\* C27: every load_resources_parallel, for any number of connections, zero
\* included, is eventually followed by a state that is not loading, with the
\* timers that were set delivered and no further load or cancel required.
C27_NeverLoadingForever == is_loading ~> ~is_loading

\* what does hold: a load that started at least one worker set its deadline,
\* and is left when that deadline (or an earlier one) is delivered (holds)
C27_LoadWithWorkersLeavesLoading ==
    (is_loading /\ expected_worker_count >= 1) ~> ~is_loading

\* =================================================================== C28
\* get_selected_resource with the cursor on row cursor_row (0-based): the
\* resource at that index of self.resources, or none (the empty sequence)
get_selected_resource(cursor_row) ==
    IF 0 <= cursor_row /\ cursor_row < Len(resources)
    THEN << resources[cursor_row + 1] >>
    ELSE <<>>

\* C28: in every state the rows of the table stand one-to-one and in order
\* for self.resources: every resource has its row, and with the cursor on any
\* row get_selected_resource returns the resource that row displays, none
\* for a placeholder row.
C28_SelectionIsDisplayed ==
    /\ Len(resources) <= Len(rows)
    /\ \A c \in 1..Len(rows) : get_selected_resource(c - 1) = rows[c].res

\* what does hold: the table and self.resources agree until the second load
C28_ConsistentInFirstLoad == (gen <= 1) => C28_SelectionIsDisplayed

\* =================================================================== C29
\* C29: default-sort mode and a pinned column exclude each other
\* (_using_default_sort only while _sort_column is None), and once
\* load_resources has been called exactly one order is in force: what is
\* shown is the list given in the default order, or in the order of the
\* pinned column, the one of the mode.
C29_SortModeExclusive ==
    /\ using_default_sort => sort_column = NoColumn
    /\ loaded.valid =>
          /\ using_default_sort \/ sort_column # NoColumn
          /\ resources = IF using_default_sort
                         THEN apply_default_sort(kind, loaded.res)
                         ELSE sort_resources(kind, loaded.res, sort_column, sort_reverse)

\* C29 happens: with a column pinned, a flush gave load_resources a list that
\* was not in the order of the column, and the order shown is not the default
C29_Witness ==
    /\ loaded.valid /\ is_loading /\ flushed # {}
    /\ sort_column # NoColumn /\ ~using_default_sort
    /\ resources # loaded.res
    /\ resources # apply_default_sort(kind, loaded.res)

\* =================================================================== C30
\* C30: in every state the number of connections in pending_results is at
\* most completed_worker_count, which is at most expected_worker_count.
C30_CountersOrdered ==
    /\ Len(pending_results) <= completed_worker_count
    /\ completed_worker_count <= expected_worker_count

\* what does hold: the counters are ordered whenever the load started at
\* least one worker, the outcomes of superseded workers included
C30_CountersOrderedWithWorkers ==
    (expected_worker_count >= 1 \/ gen = 0) => C30_CountersOrdered

====
